---- MODULE Spec2Model ----
(***************************************************************************)
(* A model of golang/tools/tools.go: ConcatWavBytes, Pcm2Wav and           *)
(* ExtractFramesAsBase64.  Each function is a sequential program; its      *)
(* position is a pc variable and the environment (file-system and          *)
(* transcoder outcomes) is a nondeterministic choice.                      *)
(***************************************************************************)
EXTENDS Integers, Sequences, FiniteSets, TLC

VARIABLES
    \* ConcatWavBytes
    wavBytes,        \* the argument: a sequence of byte buffers
    cpc,             \* position in ConcatWavBytes
    idx,             \* index of the range loop in progress (1-based)
    examined,        \* how many buffers a decoder was created for
    combinedFrames,  \* []audio.IntBuffer
    params,          \* *audio.Format, None until the first buffer is decoded
    bitDepth,        \* int, zero value 0
    tempFile,        \* the file made by os.CreateTemp
    outputBuffer,    \* first return value
    cerr,            \* second return value
    \* Pcm2Wav
    ppc, pcmBytes, pcmArg, sampleRate, numChannels, pcmBitDepth, wavData, perr,
    \* ExtractFramesAsBase64
    fpc, videoBase64, videoData, tmpDir, dirCreated, dirExists, dirFiles,
    ffmpegFrames,    \* what the transcoder did: exit status, frames written
    removeAttempted, logged, jpegBase64s, ferr

concatVars == <<wavBytes, cpc, idx, examined, combinedFrames, params, bitDepth,
                tempFile, outputBuffer, cerr>>
pcmVars == <<ppc, pcmBytes, pcmArg, sampleRate, numChannels, pcmBitDepth, wavData, perr>>
frameVars == <<fpc, videoBase64, videoData, tmpDir, dirCreated, dirExists, dirFiles,
               ffmpegFrames, removeAttempted, logged, jpegBase64s, ferr>>
vars == <<concatVars, pcmVars, frameVars>>

\* The nil of a string-valued error, and the nil of a pointer or buffer.
Nil == "nil"
None == [none |-> TRUE]

\* ------------------------------------------------------------------------
\* Bounds of the model
\* ------------------------------------------------------------------------
MaxBufs == 3
MaxFrames == 1
MaxPcmLen == 4
MaxFrameFiles == 2

\* ------------------------------------------------------------------------
\* WAV buffers as go-audio/wav reads and writes them
\* ------------------------------------------------------------------------
\* The sample formats of the input buffers: sample rate, channels, bit depth.
Formats ==
    { [rate |-> 16000, chans |-> 1, depth |-> 16],
      [rate |-> 16000, chans |-> 1, depth |-> 8],
      [rate |-> 8000,  chans |-> 1, depth |-> 16],
      [rate |-> 16000, chans |-> 2, depth |-> 16] }

\* The k-th stored sample word of a buffer: an unsigned word of `depth` bits
\* (16 bit: 300, 0xFFFF = -1, ...; 8 bit: 200, 7, ...).
RawWord(depth, k) ==
    IF depth = 16 THEN (IF k % 2 = 1 THEN 300 ELSE 65535)
                  ELSE (IF k % 2 = 1 THEN 200 ELSE 7)

\* A well-formed WAV buffer of n sample frames in format f.
WavOf(f, n) ==
    [kind |-> "wav", rate |-> f.rate, chans |-> f.chans, depth |-> f.depth,
     data |-> [k \in 1..(n * f.chans) |-> RawWord(f.depth, k)]]

\* Bytes that are no RIFF/WAVE file, and a RIFF/WAVE file whose PCM chunk cannot
\* be read.
NotWav == [kind |-> "notwav", rate |-> 0, chans |-> 0, depth |-> 0, data |-> <<>>]
NoPcm == [kind |-> "nopcm", rate |-> 16000, chans |-> 1, depth |-> 16, data |-> <<>>]

Buffers == { WavOf(f, n) : f \in Formats, n \in 0..MaxFrames } \cup {NotWav, NoPcm}

RECURSIVE SeqsUpTo(_, _)
SeqsUpTo(S, n) ==
    IF n = 0 THEN { <<>> }
    ELSE LET shorter == SeqsUpTo(S, n - 1)
         IN  shorter \cup { Append(s, x) : s \in { t \in shorter : Len(t) = n - 1 }, x \in S }

\* decoder.IsValidFile()
IsValidFile(b) == b.kind # "notwav"

\* One stored sample word as the decoder returns it: 8 bit samples are unsigned,
\* 16 bit samples are two's complement.
DecodeSample(depth, w) ==
    IF depth = 16 /\ w >= 32768 THEN w - 65536 ELSE w

\* decoder.FullPCMBuffer(): the audio.IntBuffer, or None with an error.
FullPCMBuffer(b) ==
    IF b.kind # "wav" THEN None
    ELSE [Format |-> [SampleRate |-> b.rate, NumChannels |-> b.chans],
          Data |-> [k \in 1..Len(b.data) |-> DecodeSample(b.depth, b.data[k])],
          SourceBitDepth |-> b.depth]

\* One sample as the encoder stores it at its bit depth: uint8(v) or int16(v).
EncodeSample(depth, v) ==
    IF depth = 16 THEN v % 65536 ELSE v % 256

\* encoder.Write(&buffer): the sample words added to the file: NumFrames()
\* frames of NumChannels samples each, at the encoder's bit depth.
EncoderWrite(depth, buf) ==
    LET n == (Len(buf.Data) \div buf.Format.NumChannels) * buf.Format.NumChannels
    IN  [k \in 1..n |-> EncodeSample(depth, buf.Data[k])]

\* ------------------------------------------------------------------------
\* ConcatWavBytes
\* ------------------------------------------------------------------------
ErrInvalidWav == "invalid WAV file"
ErrDecode == "decode error"
ErrMismatch == "format mismatch"
ErrEmpty == "params empty"
ErrCreateTemp == "create temp failed"
ErrEncode == "encoder write failed"
ErrClose == "encoder close failed"
ErrRead == "read back failed"

NoFile == [created |-> FALSE, exists |-> FALSE, open |-> FALSE,
           header |-> None, data |-> <<>>, sized |-> FALSE]

\* Mutation of FormatDiffers: the channel count is not compared.
FormatDiffersRateOnly(p, c) == p.SampleRate # c.SampleRate

\* Lines 41-42: the comparison of a later buffer's format with the first one's.
FormatDiffers(p, c) ==
    p.SampleRate # c.SampleRate \/ p.NumChannels # c.NumChannels

\* Mutation of IterError: the IsValidFile test of line 28 is left out.
IterErrorNoValidityTest(b, p) ==
    IF FullPCMBuffer(b) = None THEN ErrDecode
    ELSE IF p # None /\ FormatDiffers(p, FullPCMBuffer(b).Format) THEN ErrMismatch
    ELSE Nil

\* Lines 28-45: the error that ends the loop at buffer b, Nil when b is kept.
IterError(b, p) ==
    IF ~IsValidFile(b) THEN ErrInvalidWav
    ELSE IF FullPCMBuffer(b) = None THEN ErrDecode
    ELSE IF p # None /\ FormatDiffers(p, FullPCMBuffer(b).Format) THEN ErrMismatch
    ELSE Nil

\* Mutation of ParamsMissing: the test of line 50 is left out.
ParamsNeverMissing(p) == FALSE

\* Line 50: the test made after the loop.
ParamsMissing(p) == p = None

\* Mutation of NextBitDepth: the bit depth of the first buffer is kept.
FirstBitDepth(old, b) == IF old = 0 THEN b.depth ELSE old

\* Line 48: the bit depth kept after decoding buffer b.
NextBitDepth(old, b) == b.depth

\* Line 61: the bit depth the encoder is built with.
EncoderBitDepth == bitDepth

ConcatReturn(buf, e) ==
    /\ outputBuffer' = buf
    /\ cerr' = e
    \* the deferred tempFile.Close() runs only once the defer statement was reached
    /\ cpc' = IF tempFile'.created THEN "deferred" ELSE "done"

\* Lines 23-49: one iteration of the range loop, or leaving it.
ConcatIter ==
    /\ UNCHANGED <<pcmVars, frameVars>>
    /\ cpc = "loop"
    /\ UNCHANGED <<wavBytes, tempFile>>
    /\ IF idx > Len(wavBytes)
       THEN /\ cpc' = "check"
            /\ UNCHANGED <<idx, examined, combinedFrames, params, bitDepth,
                           outputBuffer, cerr>>
       ELSE LET wavData_ == wavBytes[idx]
                buf == FullPCMBuffer(wavData_)
            IN  /\ examined' = examined + 1
                /\ IF IterError(wavData_, params) # Nil
                   THEN /\ ConcatReturn(None, IterError(wavData_, params))
                        /\ UNCHANGED <<idx, combinedFrames, params, bitDepth>>
                   ELSE /\ params' = IF params = None THEN buf.Format ELSE params
                        /\ combinedFrames' = Append(combinedFrames, buf)
                        /\ bitDepth' = NextBitDepth(bitDepth, wavData_)
                        /\ idx' = idx + 1
                        /\ UNCHANGED <<cpc, outputBuffer, cerr>>

\* Lines 50-52.
ConcatCheckParams ==
    /\ UNCHANGED <<pcmVars, frameVars>>
    /\ cpc = "check"
    /\ UNCHANGED <<wavBytes, idx, examined, combinedFrames, params, bitDepth, tempFile>>
    /\ IF ParamsMissing(params)
       THEN ConcatReturn(None, ErrEmpty)
       ELSE /\ cpc' = "create"
            /\ UNCHANGED <<outputBuffer, cerr>>

\* Lines 55-61: os.CreateTemp, the deferred Close, wav.NewEncoder.
ConcatCreateTemp ==
    /\ UNCHANGED <<pcmVars, frameVars>>
    /\ cpc = "create"
    /\ UNCHANGED <<wavBytes, examined, combinedFrames, params, bitDepth>>
    /\ \E ok \in BOOLEAN :
         IF ok
         THEN /\ tempFile' = [created |-> TRUE, exists |-> TRUE, open |-> TRUE,
                              header |-> None, data |-> <<>>, sized |-> FALSE]
              /\ idx' = 1
              /\ cpc' = "encode"
              /\ UNCHANGED <<outputBuffer, cerr>>
         ELSE /\ tempFile' = tempFile
              /\ idx' = idx
              /\ ConcatReturn(None, ErrCreateTemp)

\* Lines 64-68: one encoder.Write, or leaving the loop.  The first Write puts the
\* header the encoder was built with (line 61) in front of the samples.
ConcatEncodeWrite ==
    /\ UNCHANGED <<pcmVars, frameVars>>
    /\ cpc = "encode"
    /\ UNCHANGED <<wavBytes, examined, combinedFrames, params, bitDepth>>
    /\ IF idx > Len(combinedFrames)
       THEN /\ cpc' = "close"
            /\ UNCHANGED <<idx, tempFile, outputBuffer, cerr>>
       ELSE \E ok \in BOOLEAN :
              IF ok
              THEN /\ tempFile' =
                        [tempFile EXCEPT
                           !.header = [rate |-> params.SampleRate,
                                       chans |-> params.NumChannels,
                                       depth |-> EncoderBitDepth],
                           !.data = @ \o EncoderWrite(EncoderBitDepth, combinedFrames[idx])]
                   /\ idx' = idx + 1
                   /\ UNCHANGED <<cpc, outputBuffer, cerr>>
              ELSE /\ tempFile' = tempFile
                   /\ idx' = idx
                   /\ ConcatReturn(None, ErrEncode)

\* Lines 70-72: encoder.Close() records the chunk sizes in the header.
ConcatEncoderClose ==
    /\ UNCHANGED <<pcmVars, frameVars>>
    /\ cpc = "close"
    /\ UNCHANGED <<wavBytes, idx, examined, combinedFrames, params, bitDepth>>
    /\ \E ok \in BOOLEAN :
         IF ok
         THEN /\ tempFile' = [tempFile EXCEPT !.sized = TRUE]
              /\ cpc' = "read"
              /\ UNCHANGED <<outputBuffer, cerr>>
         ELSE /\ tempFile' = tempFile
              /\ ConcatReturn(None, ErrClose)

\* The bytes of the temporary file read as a buffer.
FileBytes(f) ==
    IF f.header = None \/ ~f.sized THEN NotWav
    ELSE [kind |-> "wav", rate |-> f.header.rate, chans |-> f.header.chans,
          depth |-> f.header.depth, data |-> f.data]

\* Lines 75-81: Seek, io.ReadAll, return.
ConcatReadBack ==
    /\ UNCHANGED <<pcmVars, frameVars>>
    /\ cpc = "read"
    /\ UNCHANGED <<wavBytes, idx, examined, combinedFrames, params, bitDepth>>
    /\ tempFile' = tempFile
    /\ \E ok \in BOOLEAN :
         IF ok THEN ConcatReturn(FileBytes(tempFile), Nil)
               ELSE ConcatReturn(None, ErrRead)

\* What the function does with the temporary file when it returns (line 59):
\* it closes the descriptor; the file stays in the temporary directory.
ReleaseTemp(f) == [f EXCEPT !.open = FALSE]

\* Line 59: the deferred tempFile.Close().
ConcatDeferred ==
    /\ UNCHANGED <<pcmVars, frameVars>>
    /\ cpc = "deferred"
    /\ tempFile' = ReleaseTemp(tempFile)
    /\ cpc' = "done"
    /\ UNCHANGED <<wavBytes, idx, examined, combinedFrames, params, bitDepth,
                   outputBuffer, cerr>>

ConcatIdle ==
    /\ wavBytes = <<>> /\ cpc = "idle" /\ idx = 1 /\ examined = 0
    /\ combinedFrames = <<>> /\ params = None /\ bitDepth = 0
    /\ tempFile = NoFile /\ outputBuffer = None /\ cerr = Nil

PcmIdle ==
    /\ ppc = "idle" /\ pcmBytes = <<>> /\ pcmArg = <<>> /\ sampleRate = 0
    /\ numChannels = 0 /\ pcmBitDepth = 0 /\ wavData = <<>> /\ perr = Nil

FramesIdle ==
    /\ fpc = "idle" /\ videoBase64 = <<>> /\ videoData = <<>> /\ tmpDir = <<>>
    /\ dirCreated = FALSE /\ dirExists = FALSE /\ dirFiles = {}
    /\ ffmpegFrames = [ran |-> FALSE, exit |-> 0, count |-> 0, unreadable |-> {}] /\ removeAttempted = FALSE /\ logged = 0
    /\ jpegBase64s = <<>> /\ ferr = Nil

ConcatInit ==
    /\ wavBytes \in SeqsUpTo(Buffers, MaxBufs)
    /\ cpc = "loop" /\ idx = 1 /\ examined = 0
    /\ combinedFrames = <<>> /\ params = None /\ bitDepth = 0
    /\ tempFile = NoFile /\ outputBuffer = None /\ cerr = Nil
    /\ PcmIdle /\ FramesIdle

ConcatNext ==
    \/ ConcatIter
    \/ ConcatCheckParams
    \/ ConcatCreateTemp
    \/ ConcatEncodeWrite
    \/ ConcatEncoderClose
    \/ ConcatReadBack
    \/ ConcatDeferred

SpecConcat == ConcatInit /\ [][ConcatNext]_vars

\* ------------------------------------------------------------------------
\* Properties of ConcatWavBytes
\* ------------------------------------------------------------------------
AllWellFormed == \A k \in 1..Len(wavBytes) : wavBytes[k].kind = "wav"

SameRateAndChannels ==
    \A k \in 1..Len(wavBytes) :
        /\ wavBytes[k].rate = wavBytes[1].rate
        /\ wavBytes[k].chans = wavBytes[1].chans

\* The decoded sample sequence of a WAV buffer.
DecodedSamples(b) == [k \in 1..Len(b.data) |-> DecodeSample(b.depth, b.data[k])]

RECURSIVE SamplesUpTo(_)
SamplesUpTo(n) ==
    IF n = 0 THEN <<>> ELSE SamplesUpTo(n - 1) \o DecodedSamples(wavBytes[n])

\* The call ended on a failure of the file system, not of the inputs.
EnvFailed == cerr \in {ErrCreateTemp, ErrEncode, ErrClose, ErrRead}

\* C1 (as claimed): for every non-empty list of well-formed buffers of one
\* sample rate and channel count, whatever their bit depths, the call succeeds
\* and its result decodes to the inputs' samples in input order.
C1_RoundTrip ==
    (cpc = "done" /\ wavBytes # <<>> /\ AllWellFormed /\ SameRateAndChannels /\ ~EnvFailed)
        => /\ cerr = Nil
           /\ outputBuffer.kind = "wav"
           /\ DecodedSamples(outputBuffer) = SamplesUpTo(Len(wavBytes))

\* C2 (as claimed): when a call that created the temporary file has returned, the
\* file no longer exists.
C2_TempReleased ==
    (cpc = "done" /\ tempFile.created) => ~tempFile.exists

MismatchAfterFirst ==
    /\ AllWellFormed
    /\ \E k \in 2..Len(wavBytes) :
          \/ wavBytes[k].rate # wavBytes[1].rate
          \/ wavBytes[k].chans # wavBytes[1].chans

\* C3: on well-formed buffers of which a later one differs from the first in
\* sample rate or channel count, the temporary file is never created and the
\* call ends with the format-mismatch error and no buffer.
C3_MismatchFails ==
    MismatchAfterFirst =>
        /\ ~tempFile.created
        /\ cpc \in {"loop", "done"}
        /\ cpc = "done" => (cerr = ErrMismatch /\ outputBuffer = None)

C3_Witness ==
    /\ cpc = "done" /\ MismatchAfterFirst /\ Len(wavBytes) = 3
    /\ wavBytes[2].rate = wavBytes[1].rate /\ wavBytes[2].chans = wavBytes[1].chans
    /\ wavBytes[3].rate = wavBytes[1].rate /\ wavBytes[3].chans # wavBytes[1].chans
    /\ cerr = ErrMismatch

\* The error buffer k raises by itself, given the buffers before it were kept.
BufferError(k) ==
    IF wavBytes[k].kind = "notwav" THEN ErrInvalidWav
    ELSE IF wavBytes[k].kind = "nopcm" THEN ErrDecode
    ELSE IF \/ wavBytes[k].rate # wavBytes[1].rate
            \/ wavBytes[k].chans # wavBytes[1].chans THEN ErrMismatch
    ELSE Nil

SomeBufferFails == \E k \in 1..Len(wavBytes) : BufferError(k) # Nil

FirstFailing ==
    CHOOSE k \in 1..Len(wavBytes) :
        BufferError(k) # Nil /\ \A j \in 1..(k - 1) : BufferError(j) = Nil

\* C4: buffers are processed in input order and the call stops at the first one
\* that fails: no buffer after it is examined, the error is that buffer's
\* error and the result is nil.
C4_FirstErrorWins ==
    SomeBufferFails =>
        /\ examined <= FirstFailing
        /\ cpc = "done" => /\ examined = FirstFailing
                           /\ cerr = BufferError(FirstFailing)
                           /\ outputBuffer = None

C4_Witness ==
    /\ cpc = "done" /\ Len(wavBytes) = 3
    /\ wavBytes[1].kind = "wav" /\ wavBytes[2].kind = "notwav"
    /\ wavBytes[3].kind = "wav" /\ wavBytes[3].rate # wavBytes[1].rate
    /\ cerr = ErrInvalidWav /\ examined = 2

\* C5: a call with no buffers ends with the empty-input error and no buffer,
\* without creating the temporary file; no other call ends with that error.
C5_EmptyInput ==
    /\ wavBytes = <<>> =>
          /\ ~tempFile.created
          /\ cpc \in {"loop", "check", "done"}
          /\ cpc = "done" => (cerr = ErrEmpty /\ outputBuffer = None)
    /\ cerr = ErrEmpty => wavBytes = <<>>

C5_Witness == cpc = "done" /\ wavBytes = <<>> /\ cerr = ErrEmpty /\ outputBuffer = None

\* C9: bit depth is never compared: well-formed buffers of one sample rate and
\* channel count are never rejected, and a successful result has the first
\* buffer's sample rate and channel count and the LAST buffer's bit depth.
C9_LastBitDepth ==
    /\ (wavBytes # <<>> /\ AllWellFormed /\ SameRateAndChannels)
          => cerr \in {Nil, ErrCreateTemp, ErrEncode, ErrClose, ErrRead}
    /\ (cpc = "done" /\ cerr = Nil) =>
          /\ outputBuffer.kind = "wav"
          /\ outputBuffer.rate = wavBytes[1].rate
          /\ outputBuffer.chans = wavBytes[1].chans
          /\ outputBuffer.depth = wavBytes[Len(wavBytes)].depth

C9_Witness ==
    /\ cpc = "done" /\ cerr = Nil /\ Len(wavBytes) = 3
    /\ wavBytes[1].depth = 8 /\ wavBytes[2].depth = 16 /\ wavBytes[3].depth = 16
    /\ outputBuffer.depth = 16

\* ------------------------------------------------------------------------
\* Pcm2Wav
\* ------------------------------------------------------------------------
headerSize == 44

\* The k-th byte of a PCM argument.
PcmByte(k) == IF k <= 4 THEN k ELSE 256 - k
PcmInputs == { [k \in 1..n |-> PcmByte(k)] : n \in 0..MaxPcmLen }

SampleRates == {-1, 0, 16000, 44100}
ChannelCounts == {-1, 0, 1, 2, 65537}
BitDepths == {-8, 0, 8, 12, 16}

\* Go's int has 64 bits and the model's integers 32: the arguments are those
\* whose products stay inside the model's integers.
ProductFits(sr, nc) == nc = 65537 => sr \in {-1, 0}

\* make([]byte, n)
Zeros(n) == [k \in 1..n |-> 0]

\* copy(dst[off:], src), dst[off:] being at least as long as src.
CopyAt(dst, off, src) ==
    [k \in 1..Len(dst) |-> IF k > off /\ k <= off + Len(src) THEN src[k - off] ELSE dst[k]]

\* Go's x / d on ints, d > 0: the quotient truncated toward zero.
GoDiv(x, d) == IF x >= 0 THEN x \div d ELSE -((-x) \div d)

\* binary.LittleEndian.PutUint16(b, uint16(x)): the low 16 bits of x, low byte
\* first (\div rounds down, so a negative x gives its two's complement).
PutUint16(x) == << x % 256, (x \div 256) % 256 >>

\* binary.LittleEndian.PutUint32(b, uint32(x)): the low 32 bits of x.
PutUint32(x) ==
    << x % 256, (x \div 256) % 256, (x \div 65536) % 256, (x \div 16777216) % 256 >>

\* []byte("RIFF"), []byte("WAVE"), []byte("fmt "), []byte("data")
RIFF == <<82, 73, 70, 70>>
WAVE == <<87, 65, 86, 69>>
FMT == <<102, 109, 116, 32>>
DATA == <<100, 97, 116, 97>>

\* Mutation of ByteRate: the division by 8 is left out.
ByteRateNoDivide(sr, nc, bd) == sr * nc * bd

\* Line 113.
ByteRate(sr, nc, bd) == GoDiv(sr * nc * bd, 8)

\* Line 115.
BlockAlign(nc, bd) == GoDiv(nc * bd, 8)

\* Mutation of CopyPayload: the payload starts one byte early.
CopyPayloadEarly(w, pcm) == CopyAt(w, 43, pcm)

\* Line 124.
CopyPayload(w, pcm) == CopyAt(w, 44, pcm)

\* Lines 90-126: the returned slice.
Pcm2Wav(pcm, sr, nc, bd) ==
    LET fileSize == Len(pcm) + headerSize
        w0  == Zeros(fileSize)
        w1  == CopyAt(w0, 0, RIFF)
        w2  == CopyAt(w1, 4, PutUint32(fileSize - 8))
        w3  == CopyAt(w2, 8, WAVE)
        w4  == CopyAt(w3, 12, FMT)
        w5  == CopyAt(w4, 16, PutUint32(16))
        w6  == CopyAt(w5, 20, PutUint16(1))
        w7  == CopyAt(w6, 22, PutUint16(nc))
        w8  == CopyAt(w7, 24, PutUint32(sr))
        w9  == CopyAt(w8, 28, PutUint32(ByteRate(sr, nc, bd)))
        w10 == CopyAt(w9, 32, PutUint16(BlockAlign(nc, bd)))
        w11 == CopyAt(w10, 34, PutUint16(bd))
        w12 == CopyAt(w11, 36, DATA)
        w13 == CopyAt(w12, 40, PutUint32(Len(pcm)))
    IN  CopyPayload(w13, pcm)

\* Lines 88-127: the call.
Pcm2WavCall ==
    /\ ppc = "call"
    /\ wavData' = Pcm2Wav(pcmBytes, sampleRate, numChannels, pcmBitDepth)
    /\ perr' = Nil
    /\ ppc' = "done"
    /\ UNCHANGED <<pcmBytes, pcmArg, sampleRate, numChannels, pcmBitDepth>>
    /\ UNCHANGED <<concatVars, frameVars>>

\* pcmArg keeps the argument as it was when the call was made.
PcmInit ==
    /\ pcmBytes \in PcmInputs
    /\ pcmArg = pcmBytes
    /\ sampleRate \in SampleRates
    /\ numChannels \in ChannelCounts
    /\ pcmBitDepth \in BitDepths
    /\ ProductFits(sampleRate, numChannels)
    /\ ppc = "call" /\ wavData = <<>> /\ perr = Nil
    /\ ConcatIdle /\ FramesIdle

PcmNext == Pcm2WavCall

SpecPcm == PcmInit /\ [][PcmNext]_vars

\* ------------------------------------------------------------------------
\* Properties of Pcm2Wav
\* ------------------------------------------------------------------------
\* C6: the call returns no error and 44 + L bytes, the bytes from offset 44 on
\* being the PCM argument, which is left as it was.
C6_PayloadKept ==
    ppc = "done" =>
        /\ perr = Nil
        /\ Len(wavData) = 44 + Len(pcmArg)
        /\ \A k \in 1..Len(pcmArg) : wavData[44 + k] = pcmArg[k]
        /\ pcmBytes = pcmArg

C6_Witness ==
    /\ ppc = "done" /\ Len(pcmArg) = 4 /\ numChannels = 0 /\ pcmBitDepth = -8
    /\ Len(wavData) = 48 /\ SubSeq(wavData, 45, 48) = <<1, 2, 3, 4>>

\* The unsigned 16 bit little-endian field at byte offset off.
U16At(w, off) == w[off + 1] + 256 * w[off + 2]

\* The unsigned 32 bit little-endian field at offset off is the integer v: its
\* low half is v mod 2^16 and its high half is v div 2^16 (no v below 0 and
\* none from 2^32 on passes, the high half being in 0..65535).
U32Is(w, off, v) ==
    /\ U16At(w, off) = v % 65536
    /\ U16At(w, off + 2) = v \div 65536

\* The 32 bit field at offset off is v modulo 2^32.
U32IsMod(w, off, v) ==
    /\ U16At(w, off) = v % 65536
    /\ U16At(w, off + 2) = (v \div 65536) % 65536

\* C7 (as claimed): the header fields are the arguments and the values
\* computed from them, for every call.
C7_HeaderFieldsExact ==
    ppc = "done" =>
        /\ U32Is(wavData, 4, Len(wavData) - 8)
        /\ U16At(wavData, 22) = numChannels
        /\ U32Is(wavData, 24, sampleRate)
        /\ U32Is(wavData, 28, GoDiv(sampleRate * numChannels * pcmBitDepth, 8))
        /\ U16At(wavData, 32) = GoDiv(numChannels * pcmBitDepth, 8)
        /\ U16At(wavData, 34) = pcmBitDepth
        /\ U32Is(wavData, 40, Len(pcmArg))

\* Every value the claim names fits its field.
FieldsInRange ==
    /\ numChannels \in 0..65535
    /\ pcmBitDepth \in 0..65535
    /\ GoDiv(numChannels * pcmBitDepth, 8) \in 0..65535
    /\ sampleRate >= 0
    /\ GoDiv(sampleRate * numChannels * pcmBitDepth, 8) >= 0

\* C7 (amended): every header field is the claimed value reduced modulo 2^16
\* (16 bit fields) or 2^32 (32 bit fields), the quotients truncated toward
\* zero; the fields are the claimed values themselves when these fit the fields.
C7_HeaderFieldsModulo ==
    ppc = "done" =>
        /\ U32IsMod(wavData, 4, Len(wavData) - 8)
        /\ U16At(wavData, 22) = numChannels % 65536
        /\ U32IsMod(wavData, 24, sampleRate)
        /\ U32IsMod(wavData, 28, GoDiv(sampleRate * numChannels * pcmBitDepth, 8))
        /\ U16At(wavData, 32) = GoDiv(numChannels * pcmBitDepth, 8) % 65536
        /\ U16At(wavData, 34) = pcmBitDepth % 65536
        /\ U32IsMod(wavData, 40, Len(pcmArg))
        /\ FieldsInRange => C7_HeaderFieldsExact

\* The example of the claim: (16000, 1, 16) and a 4 byte payload.
C7_Witness ==
    /\ ppc = "done" /\ sampleRate = 16000 /\ numChannels = 1 /\ pcmBitDepth = 16
    /\ pcmArg = <<1, 2, 3, 4>>
    /\ SubSeq(wavData, 5, 8) = <<40, 0, 0, 0>>
    /\ SubSeq(wavData, 9, 12) = WAVE
    /\ U16At(wavData, 22) = 1
    /\ U32Is(wavData, 24, 16000)
    /\ U32Is(wavData, 28, 32000)
    /\ U16At(wavData, 32) = 2
    /\ U16At(wavData, 34) = 16
    /\ U32Is(wavData, 40, 4)

\* ------------------------------------------------------------------------
\* ExtractFramesAsBase64
\* ------------------------------------------------------------------------
\* A base64 string is the sequence of its characters' alphabet indexes 0..63,
\* Pad for '=' and Illegal for a character outside the alphabet.
Pad == 64
Illegal == 99

\* base64.StdEncoding.EncodeToString
RECURSIVE EncodeToString(_)
EncodeToString(b) ==
    IF Len(b) = 0 THEN <<>>
    ELSE IF Len(b) = 1 THEN << b[1] \div 4, (b[1] % 4) * 16, Pad, Pad >>
    ELSE IF Len(b) = 2
    THEN << b[1] \div 4, (b[1] % 4) * 16 + b[2] \div 16, (b[2] % 16) * 4, Pad >>
    ELSE << b[1] \div 4, (b[1] % 4) * 16 + b[2] \div 16,
            (b[2] % 16) * 4 + b[3] \div 64, b[3] % 64 >>
         \o EncodeToString(SubSeq(b, 4, Len(b)))

CorruptInput == [ok |-> FALSE, data |-> <<>>]

\* base64.StdEncoding.DecodeString: quanta of four characters, padding only in
\* the last one.
RECURSIVE DecodeString(_)
DecodeString(s) ==
    IF Len(s) = 0 THEN [ok |-> TRUE, data |-> <<>>]
    ELSE IF Len(s) < 4 THEN CorruptInput
    ELSE LET rest == SubSeq(s, 5, Len(s))
             b1 == s[1] * 4 + s[2] \div 16
             b2 == (s[2] % 16) * 16 + s[3] \div 4
             b3 == (s[3] % 4) * 64 + s[4]
         IN  IF s[1] \notin 0..63 \/ s[2] \notin 0..63 THEN CorruptInput
             ELSE IF s[3] = Pad
             THEN (IF s[4] = Pad /\ rest = <<>>
                   THEN [ok |-> TRUE, data |-> <<b1>>] ELSE CorruptInput)
             ELSE IF s[3] \notin 0..63 THEN CorruptInput
             ELSE IF s[4] = Pad
             THEN (IF rest = <<>> THEN [ok |-> TRUE, data |-> <<b1, b2>>] ELSE CorruptInput)
             ELSE IF s[4] \notin 0..63 THEN CorruptInput
             ELSE LET r == DecodeString(rest)
                  IN  IF r.ok THEN [ok |-> TRUE, data |-> <<b1, b2, b3>> \o r.data]
                      ELSE CorruptInput

\* The arguments: the empty string, encoded payloads, a string cut short and a
\* string with a character outside the alphabet.
VideoInputs ==
    { <<>>, EncodeToString(<<77>>), EncodeToString(<<0, 1, 2, 250>>),
      <<19, 22>>, <<19, Illegal, Pad, Pad>> }

\* Paths and names are sequences of characters.
Slash == <<"/">>
\* os.TempDir(): $TMPDIR, which may hold a '[' that no ']' closes.
TempRoots == { <<"/", "t", "m", "p">>, <<"/", "t", "[">> }
\* The directory os.MkdirTemp(root, "video_frames_*") makes.
MkdirTempName(root) ==
    root \o Slash \o <<"v", "i", "d", "e", "o", "_", "f", "r", "a", "m", "e", "s", "_", "1">>

InputName == <<"i", "n", "p", "u", "t", ".", "m", "p", "4">>
\* Line 149: the name of outputPattern, "frame_%04d.jpg".
PatternName == <<"f", "r", "a", "m", "e", "_", "%", "0", "4", "d", ".", "j", "p", "g">>

\* filepath.Join(dir, name)
Join(dir, name) == dir \o Slash \o name

Digit(d) == <<"0", "1", "2", "3", "4", "5", "6", "7", "8", "9">>[d + 1]

\* The name the transcoder gives frame n from "frame_%04d.jpg".
FrameName(n) ==
    <<"f", "r", "a", "m", "e", "_">>
    \o << Digit((n \div 1000) % 10), Digit((n \div 100) % 10),
          Digit((n \div 10) % 10), Digit(n % 10) >>
    \o <<".", "j", "p", "g">>

\* The bytes of frame n.
FrameData(n) == <<255, 216, n>>

\* filepath: hasMeta, the characters `*?[\`.
HasMeta(path) == \E k \in 1..Len(path) : path[k] \in {"*", "?", "[", "\\"}

\* filepath.Match's ErrBadPattern: a '[' that no ']' closes.
BadPattern(path) ==
    \E k \in 1..Len(path) :
        path[k] = "[" /\ \A j \in (k + 1)..Len(path) : path[j] # "]"

\* os.Lstat(path) succeeds.
Lstat(path, dir, exists, entries) ==
    exists /\ \E f \in entries : Join(dir, f.name) = path

\* filepath.Glob(pattern).  A well-formed pattern of the model holds no meta
\* character (TempRoots, PatternName), so Glob is its !hasMeta branch: the
\* pattern itself when a file of that very name exists, nothing otherwise.
Glob(pattern, dir, exists, entries) ==
    IF BadPattern(pattern) THEN [err |-> TRUE, files |-> <<>>]
    ELSE IF ~HasMeta(pattern) /\ Lstat(pattern, dir, exists, entries)
    THEN [err |-> FALSE, files |-> <<pattern>>]
    ELSE [err |-> FALSE, files |-> <<>>]

FileAt(path, dir, entries) == CHOOSE f \in entries : Join(dir, f.name) = path

\* Lines 178-196: the loop over the matched files; a file that cannot be opened
\* or read is logged and skipped.
RECURSIVE CollectFrames(_, _, _)
CollectFrames(files, dir, entries) ==
    IF files = <<>> THEN [list |-> <<>>, logs |-> 0]
    ELSE LET f == FileAt(Head(files), dir, entries)
             r == CollectFrames(Tail(files), dir, entries)
         IN  IF ~f.readable THEN [list |-> r.list, logs |-> r.logs + 1]
             ELSE [list |-> <<EncodeToString(f.data)>> \o r.list, logs |-> r.logs]

ErrBase64 == "failed to decode base64 input"
ErrMkdir == "failed to create temp dir"
ErrWriteInput == "failed to write input video"
ErrFfmpeg == "ffmpeg failed"
ErrGlob == "failed to match output files"

\* Mutation of ReturnTo: the scratch directory is removed on success only.
ReturnToCleanupOnSuccess(deferRegistered, e) ==
    IF deferRegistered /\ e = Nil THEN "deferred" ELSE "done"

\* Lines 141-146: a return runs the deferred os.RemoveAll once the defer
\* statement was reached.
ReturnTo(deferRegistered, e) ==
    IF deferRegistered THEN "deferred" ELSE "done"

FramesReturn(list, e) ==
    /\ jpegBase64s' = list
    /\ ferr' = e
    /\ fpc' = ReturnTo(dirCreated', e)

\* Lines 131-134.
ExtractDecode ==
    /\ fpc = "decode"
    /\ UNCHANGED <<concatVars, pcmVars>>
    /\ UNCHANGED <<videoBase64, tmpDir, dirCreated, dirExists, dirFiles, ffmpegFrames,
                   removeAttempted, logged>>
    /\ LET d == DecodeString(videoBase64)
       IN  IF d.ok
           THEN /\ videoData' = d.data
                /\ fpc' = "mkdir"
                /\ UNCHANGED <<jpegBase64s, ferr>>
           ELSE /\ videoData' = videoData
                /\ FramesReturn(<<>>, ErrBase64)

\* Lines 137-149.
ExtractMkdirTemp ==
    /\ fpc = "mkdir"
    /\ UNCHANGED <<concatVars, pcmVars>>
    /\ UNCHANGED <<videoBase64, videoData, dirFiles, ffmpegFrames, removeAttempted, logged>>
    /\ \/ /\ UNCHANGED <<tmpDir, dirCreated, dirExists>>
          /\ FramesReturn(<<>>, ErrMkdir)
       \/ \E root \in TempRoots :
            /\ tmpDir' = MkdirTempName(root)
            /\ dirCreated' = TRUE
            /\ dirExists' = TRUE
            /\ fpc' = "write"
            /\ UNCHANGED <<jpegBase64s, ferr>>

\* Lines 152-154.
ExtractWriteInput ==
    /\ fpc = "write"
    /\ UNCHANGED <<concatVars, pcmVars>>
    /\ UNCHANGED <<videoBase64, videoData, tmpDir, dirCreated, dirExists, ffmpegFrames,
                   removeAttempted, logged>>
    /\ \E ok \in BOOLEAN :
         IF ok
         THEN /\ dirFiles' = dirFiles \cup
                    {[name |-> InputName, data |-> videoData, readable |-> TRUE]}
              /\ fpc' = "ffmpeg"
              /\ UNCHANGED <<jpegBase64s, ferr>>
         ELSE /\ dirFiles' = dirFiles
              /\ FramesReturn(<<>>, ErrWriteInput)

\* Lines 157-170: the transcoder writes frame_0001.jpg ... and exits; a frame
\* file may be one that cannot be read afterwards.
ExtractRunFfmpeg ==
    /\ fpc = "ffmpeg"
    /\ UNCHANGED <<concatVars, pcmVars>>
    /\ UNCHANGED <<videoBase64, videoData, tmpDir, dirCreated, dirExists,
                   removeAttempted, logged>>
    /\ \E k \in 0..MaxFrameFiles, unreadable \in SUBSET (1..MaxFrameFiles), exit \in {0, 1} :
         /\ unreadable \subseteq 1..k
         /\ dirFiles' = dirFiles \cup
               { [name |-> FrameName(n), data |-> FrameData(n),
                  readable |-> n \notin unreadable] : n \in 1..k }
         /\ ffmpegFrames' = [ran |-> TRUE, exit |-> exit, count |-> k,
                            unreadable |-> unreadable]
         /\ IF exit = 0
            THEN /\ fpc' = "collect"
                 /\ UNCHANGED <<jpegBase64s, ferr>>
            ELSE FramesReturn(<<>>, ErrFfmpeg)

\* Lines 173-198.
ExtractCollect ==
    /\ fpc = "collect"
    /\ UNCHANGED <<concatVars, pcmVars>>
    /\ UNCHANGED <<videoBase64, videoData, tmpDir, dirCreated, dirExists, dirFiles,
                   ffmpegFrames, removeAttempted>>
    /\ LET g == Glob(Join(tmpDir, PatternName), tmpDir, dirExists, dirFiles)
           c == CollectFrames(g.files, tmpDir, dirFiles)
       IN  IF g.err
           THEN /\ logged' = logged
                /\ FramesReturn(<<>>, ErrGlob)
           ELSE /\ logged' = logged + c.logs
                /\ FramesReturn(c.list, Nil)

\* Lines 141-146: os.RemoveAll(tmpDir); its failure is logged.
ExtractDeferred ==
    /\ fpc = "deferred"
    /\ UNCHANGED <<concatVars, pcmVars>>
    /\ UNCHANGED <<videoBase64, videoData, tmpDir, dirCreated, ffmpegFrames,
                   jpegBase64s, ferr>>
    /\ removeAttempted' = TRUE
    /\ fpc' = "done"
    /\ \E ok \in BOOLEAN :
         IF ok THEN /\ dirExists' = FALSE
                    /\ dirFiles' = {}
                    /\ logged' = logged
               ELSE /\ UNCHANGED <<dirExists, dirFiles>>
                    /\ logged' = logged + 1

FramesInit ==
    /\ videoBase64 \in VideoInputs
    /\ fpc = "decode" /\ videoData = <<>> /\ tmpDir = <<>>
    /\ dirCreated = FALSE /\ dirExists = FALSE /\ dirFiles = {}
    /\ ffmpegFrames = [ran |-> FALSE, exit |-> 0, count |-> 0, unreadable |-> {}]
    /\ removeAttempted = FALSE /\ logged = 0
    /\ jpegBase64s = <<>> /\ ferr = Nil
    /\ ConcatIdle /\ PcmIdle

FramesNext ==
    \/ ExtractDecode
    \/ ExtractMkdirTemp
    \/ ExtractWriteInput
    \/ ExtractRunFfmpeg
    \/ ExtractCollect
    \/ ExtractDeferred

SpecFrames == FramesInit /\ [][FramesNext]_vars

\* ------------------------------------------------------------------------
\* Properties of ExtractFramesAsBase64
\* ------------------------------------------------------------------------
\* The base64 strings of the readable frames among frame 1 .. frame n, in
\* ascending frame number.
RECURSIVE ReadableFrames(_)
ReadableFrames(n) ==
    IF n = 0 THEN <<>>
    ELSE IF n \in ffmpegFrames.unreadable THEN ReadableFrames(n - 1)
    ELSE ReadableFrames(n - 1) \o <<EncodeToString(FrameData(n))>>

\* C8 (as claimed): when the transcoder has exited with status zero having
\* written k frame files, the call returns without error the base64 strings of
\* the readable ones in ascending frame number.  (Stated for a temporary
\* directory whose path is a well-formed pattern, so that Glob itself succeeds.)
C8_FramesReturned ==
    (fpc = "done" /\ ffmpegFrames.ran /\ ffmpegFrames.exit = 0
       /\ ~BadPattern(Join(tmpDir, PatternName)))
        => /\ ferr = Nil
           /\ jpegBase64s = ReadableFrames(ffmpegFrames.count)

\* C10: a call whose argument is no base64 string fails without creating the
\* scratch directory; a call that created it has attempted its removal when it
\* has returned, whatever the exit path; and the removal, failed or not,
\* leaves the returned list and error as they were.
C10_Inv ==
    /\ ~DecodeString(videoBase64).ok =>
          /\ ~dirCreated
          /\ fpc \in {"decode", "done"}
          /\ fpc = "done" => ferr = ErrBase64
    /\ (fpc = "done" /\ dirCreated) => removeAttempted
    /\ (fpc = "deferred") => dirCreated

C10_ScratchRemoved ==
    /\ []C10_Inv
    /\ [][fpc = "deferred" => (jpegBase64s' = jpegBase64s /\ ferr' = ferr)]_vars

\* The removal failed after the transcoder failed: the directory is still there.
C10_Witness ==
    /\ fpc = "done" /\ dirCreated /\ removeAttempted /\ dirExists
    /\ ferr = ErrFfmpeg /\ logged = 1

====
